---------------------------- MODULE Spec2Model ----------------------------
(***************************************************************************)
(* Model of shokz-battery.py: the log scan of parse_logs, the payload      *)
(* decoders, format_output's no-data test and the polling loop of main.    *)
(*                                                                         *)
(* Conventions.  An optional Python value is a tuple: None is <<>> and a   *)
(* value x is <<x>>.  A hex payload (the text captured by a pattern) is a  *)
(* sequence of one-character strings.  A decoded str is the sequence of    *)
(* its character codes; the text hex_to_mac builds is a sequence of        *)
(* one-character strings.  A call that can raise returns a record          *)
(* [exc, val]: exc is "" on a normal return, else the exception's name.    *)
(***************************************************************************)
EXTENDS Integers, Sequences, FiniteSets, TLC

VARIABLES
    tree,       \* the log directory: file name -> lines (records) or Unreadable
    watch,      \* args.watch
    pc,         \* position of main: "start", "scan", "print", "sleep",
                \* "exited", "aborted"; "codec" in the decoder harness
    log_files,  \* parse_logs: the listing, a sequence of file names
    pos,        \* parse_logs: number of matches of the listing folded so far
    data,       \* parse_logs: the snapshot being built
    out,        \* what get_and_print has printed: one entry per finished call
    exitCode,   \* return value of main, <<>> while it runs
    hexIn,      \* decoder harness: the payload handed to the decoders
    decoded     \* decoder harness: <<>> or <<[battery, mac]>>

vars == <<tree, watch, pc, log_files, pos, data, out, exitCode, hexIn, decoded>>

None == <<>>
Some(x) == <<x>>
IsSet(o) == o # <<>>
Val(o) == o[1]

Ok(v) == [exc |-> "", val |-> v]
Raise(e) == [exc |-> e, val |-> None]

RECURSIVE Flatten(_)
Flatten(ss) == IF ss = <<>> THEN <<>> ELSE Head(ss) \o Flatten(Tail(ss))

-----------------------------------------------------------------------------
(* Byte codec *)

HexDigits == <<"0", "1", "2", "3", "4", "5", "6", "7",
               "8", "9", "A", "B", "C", "D", "E", "F">>
LowerHexDigits == <<"0", "1", "2", "3", "4", "5", "6", "7",
                    "8", "9", "a", "b", "c", "d", "e", "f">>

IsHexDigit(c) == \E i \in 1..16 : HexDigits[i] = c \/ LowerHexDigits[i] = c
HexVal(c) == (CHOOSE i \in 1..16 : HexDigits[i] = c \/ LowerHexDigits[i] = c) - 1

\* bytes.fromhex: ValueError on an odd number of digits or a non-hex character
fromhex(h) ==
    IF Len(h) % 2 = 1 \/ \E i \in 1..Len(h) : ~IsHexDigit(h[i])
    THEN Raise("ValueError")
    ELSE Ok([i \in 1..(Len(h) \div 2) |->
                16 * HexVal(h[2 * i - 1]) + HexVal(h[2 * i])])

\* bytes_data[i] with Python's 0-based index: IndexError past the end
ByteAt(bytes, i) ==
    IF i + 1 <= Len(bytes) THEN Ok(bytes[i + 1]) ELSE Raise("IndexError")

\* bytes_data[n:] and bytes_data[:n] never raise
DropFirst(bytes, n) ==
    IF n >= Len(bytes) THEN <<>> ELSE SubSeq(bytes, n + 1, Len(bytes))
TakeFirst(bytes, n) ==
    IF n >= Len(bytes) THEN bytes ELSE SubSeq(bytes, 1, n)

\* bytes.find(b'\x00'): 0-based index of the first null byte, -1 if none
FindNull(bytes) ==
    IF \E i \in 1..Len(bytes) : bytes[i] = 0
    THEN (CHOOSE i \in 1..Len(bytes) :
              bytes[i] = 0 /\ \A j \in 1..(i - 1) : bytes[j] # 0) - 1
    ELSE -1

\* bytes.decode('ascii', errors='ignore'): bytes above 127 are dropped
AsciiIgnore(bytes) == SelectSeq(bytes, LAMBDA b : b < 128)

hex_to_ascii(hex_str, skip_first) ==
    LET r == fromhex(hex_str) IN
    IF r.exc \in {"ValueError", "IndexError"} THEN Ok(None)
    ELSE IF r.exc # "" THEN r
    ELSE LET bytes_data == DropFirst(r.val, skip_first)
             null_idx == FindNull(bytes_data)
             cut == IF null_idx > 0 THEN TakeFirst(bytes_data, null_idx)
                    ELSE bytes_data
         IN  Ok(Some(AsciiIgnore(cut)))

\* f'{b:02X}'
Hex02X(b) == <<HexDigits[(b \div 16) + 1], HexDigits[(b % 16) + 1]>>

\* ':'.join(parts)
RECURSIVE JoinColon(_)
JoinColon(parts) ==
    IF parts = <<>> THEN <<>>
    ELSE IF Len(parts) = 1 THEN parts[1]
    ELSE parts[1] \o <<":">> \o JoinColon(Tail(parts))

hex_to_mac(hex_str) ==
    LET r == fromhex(hex_str) IN
    IF r.exc \in {"ValueError", "IndexError"} THEN Ok(None)
    ELSE IF r.exc # "" THEN r
    ELSE LET bytes_data == TakeFirst(r.val, 6)
         IN  Ok(Some(JoinColon([i \in 1..Len(bytes_data) |-> Hex02X(bytes_data[i])])))

Min(a, b) == IF a <= b THEN a ELSE b

\* a mutation of decode_battery: the percentage is not capped at 100
decode_battery_uncapped(hex_value) ==
    LET r == fromhex(hex_value) IN
    IF r.exc \in {"ValueError", "IndexError"} THEN Ok(None)
    ELSE IF r.exc # "" THEN r
    ELSE IF Len(r.val) >= 2
         THEN Ok(Some([level_indicator |-> r.val[2],
                       percentage |-> (r.val[2] + 1) * 10,
                       level_text |-> "High"]))
         ELSE Ok(None)

decode_battery(hex_value) ==
    LET r == fromhex(hex_value) IN
    IF r.exc \in {"ValueError", "IndexError"} THEN Ok(None)
    ELSE IF r.exc # "" THEN r
    ELSE IF Len(r.val) >= 2
         THEN LET level_indicator == r.val[2]
                  percentage == Min((level_indicator + 1) * 10, 100)
                  level_text == IF percentage >= 70 THEN "High"
                                ELSE IF percentage >= 40 THEN "Medium"
                                ELSE IF percentage >= 20 THEN "Low"
                                ELSE "Critical"
              IN  Ok(Some([level_indicator |-> level_indicator,
                           percentage |-> percentage,
                           level_text |-> level_text]))
         ELSE Ok(None)

-----------------------------------------------------------------------------
(* Lookup tables.  A model code is the sequence of its character codes *)
(* ("S810" is <<83, 56, 49, 48>>); a table maps a mode id to its name. *)

EQ_MODES_DEFAULT == (0 :> "Standard" @@ 1 :> "Vocal" @@ 2 :> "Bass Boost" @@ 3 :> "Treble Boost")

EQ_MODES_BY_MODEL ==
       <<67, 49, 48, 50>> :> (0 :> "Standard" @@ 2 :> "Vocal Booster")
    @@ <<67, 49, 49, 48>> :> (0 :> "Standard" @@ 2 :> "Vocal Booster")
    @@ <<67, 49, 50, 48>> :> (0 :> "Standard" @@ 2 :> "Vocal Booster")
    @@ <<83, 54, 54, 49>> :> (0 :> "Standard" @@ 1 :> "Vocal Booster" @@ 2 :> "Earplug")
    @@ <<83, 56, 48, 51>> :> (0 :> "Standard" @@ 1 :> "Vocal Booster")
    @@ <<83, 56, 48, 52>> :> (0 :> "Standard" @@ 1 :> "Vocal Booster")
    @@ <<83, 56, 49, 48>> :> (0 :> "Standard" @@ 1 :> "Vocal" @@ 2 :> "Bass Boost" @@ 3 :> "Treble Boost")
    @@ <<83, 56, 49, 49>> :> (0 :> "Standard" @@ 1 :> "Vocal" @@ 2 :> "Bass Boost" @@ 3 :> "Treble Boost")
    @@ <<83, 56, 49, 50>> :> (0 :> "Standard" @@ 1 :> "Vocal" @@ 2 :> "Bass Boost" @@ 3 :> "Treble Boost" @@ 4 :> "Classic" @@ 5 :> "Volume Boost")
    @@ <<84, 57, 49, 48>> :> (0 :> "Standard" @@ 1 :> "Vocal" @@ 2 :> "Bass Boost" @@ 3 :> "Treble Boost" @@ 4 :> "Private")

LANGUAGES ==
    (0 :> "English" @@ 1 :> "Chinese" @@ 2 :> "Japanese" @@ 3 :> "Korean" @@ 4 :> "Spanish" @@ 5 :> "French" @@ 6 :> "German")

\* a mutation of get_eq_mode_name: the default table whatever the headset type
get_eq_mode_name_default(mode_id, headset_type) ==
    IF mode_id \in DOMAIN EQ_MODES_DEFAULT THEN <<EQ_MODES_DEFAULT[mode_id]>>
    ELSE <<"Unknown", mode_id>>

get_eq_mode_name(mode_id, headset_type) ==
    LET modes == IF IsSet(headset_type) /\ Val(headset_type) \in DOMAIN EQ_MODES_BY_MODEL
                 THEN EQ_MODES_BY_MODEL[Val(headset_type)]
                 ELSE EQ_MODES_DEFAULT
    IN  IF mode_id \in DOMAIN modes THEN <<modes[mode_id]>>
        ELSE <<"Unknown", mode_id>>

-----------------------------------------------------------------------------
(* Timestamps.  The text "[YYYY-MM-DD HH:MM:SS:mmm]" matched by the battery *)
(* pattern is the tuple of its seven numbers; the pattern only asks for     *)
(* digits, so any number of the right width can stand in a field.           *)

IsLeap(y) == (y % 4 = 0 /\ y % 100 # 0) \/ y % 400 = 0
DaysIn(y, m) ==
    IF m = 2 THEN (IF IsLeap(y) THEN 29 ELSE 28)
    ELSE IF m \in {4, 6, 9, 11} THEN 30 ELSE 31

\* datetime.strptime(timestamp_str, '%Y-%m-%d %H:%M:%S:%f'): the datetime, as
\* <<year, month, day, hour, minute, second, microsecond>>, or ValueError
strptime(ts) ==
    IF /\ ts[1] >= 1
       /\ ts[2] \in 1..12
       /\ ts[3] >= 1 /\ ts[3] <= DaysIn(ts[1], ts[2])
       /\ ts[4] <= 23 /\ ts[5] <= 59 /\ ts[6] <= 59
    THEN Ok(<<ts[1], ts[2], ts[3], ts[4], ts[5], ts[6], ts[7] * 1000>>)
    ELSE Raise("ValueError")

\* datetime's a > b
RECURSIVE SeqGreater(_, _)
SeqGreater(a, b) ==
    IF a = <<>> \/ b = <<>> THEN FALSE
    ELSE IF Head(a) # Head(b) THEN Head(a) > Head(b)
    ELSE SeqGreater(Tail(a), Tail(b))

\* a mutation of DatetimeGreater: != in place of >
DatetimeDiffers(a, b) == a # b

\* a mutation of DatetimeGreater: >= in place of >
DatetimeGreaterOrEqual(a, b) == a = b \/ SeqGreater(a, b)

DatetimeGreater(a, b) == SeqGreater(a, b)

-----------------------------------------------------------------------------
(* parse_logs *)

\* the keys of `patterns`, in the order the dict is iterated
PatternKeys == <<"battery", "dongle_firmware", "dongle_mac", "headset_type",
                 "headset_firmware", "multipoint", "eq_mode", "language",
                 "connection">>

\* the initial `data`
EmptyData ==
    [battery |-> [value |-> None, timestamp |-> None],
     dongle_firmware |-> None,
     dongle_mac |-> None,
     headset_type |-> None,
     headset_firmware |-> None,
     multipoint_enabled |-> None,
     multipoint_connections |-> None,
     eq_mode_id |-> None,
     eq_mode |-> None,
     voice_language |-> None,
     connected |-> None]

\* re.finditer(patterns[key], content): the lines of the file that match the
\* pattern of `key`, top to bottom.  A line is a record [kind, ts, value].
\* a mutation of finditer: the matches bottom to top
RECURSIVE Reverse(_)
Reverse(s) == IF s = <<>> THEN <<>> ELSE Reverse(Tail(s)) \o <<Head(s)>>
finditer_reversed(key, content) ==
    Reverse(SelectSeq(content, LAMBDA line : line.kind = key))

finditer(key, content) == SelectSeq(content, LAMBDA line : line.kind = key)

\* the matches of one file in the order the loops of parse_logs reach them:
\* every battery match, then the matches of each other key in turn
FileMatches(content) ==
    Flatten([k \in 1..Len(PatternKeys) |-> finditer(PatternKeys[k], content)])

\* the exceptions the handlers around one decode catch
DecodeCaught == {"ValueError", "IndexError"}

\* the body of the battery loop for one match
FoldBattery(d, m) ==
    LET t == strptime(m.ts) IN
    IF t.exc = "ValueError" THEN Ok(d)
    ELSE IF t.exc # "" THEN Raise(t.exc)
    ELSE IF \/ ~IsSet(d.battery.timestamp)
            \/ DatetimeGreater(t.val, Val(d.battery.timestamp))
         THEN Ok([d EXCEPT !.battery = [value |-> Some(m.value),
                                        timestamp |-> Some(t.val)]])
         ELSE Ok(d)

FoldMultipoint(d, m) ==
    LET b == fromhex(m.value) IN
    IF b.exc # "" THEN (IF b.exc \in DecodeCaught THEN Ok(d) ELSE Raise(b.exc))
    ELSE LET b1 == ByteAt(b.val, 1) IN
         IF b1.exc # "" THEN (IF b1.exc \in DecodeCaught THEN Ok(d) ELSE Raise(b1.exc))
         ELSE LET d1 == [d EXCEPT !.multipoint_enabled = Some(b1.val = 1)]
                  b2 == ByteAt(b.val, 2)
              IN  IF b2.exc # ""
                  THEN (IF b2.exc \in DecodeCaught THEN Ok(d1) ELSE Raise(b2.exc))
                  ELSE Ok([d1 EXCEPT !.multipoint_connections = Some(b2.val)])

\* bytes.fromhex(value)[i], as the eq_mode, language and connection branches
\* read it inside their try
TryByte(value, i) ==
    LET b == fromhex(value) IN
    IF b.exc # "" THEN Raise(b.exc) ELSE ByteAt(b.val, i)

\* the except clause of those branches: d1 when the try body ran to its end,
\* d when it raised an exception the clause catches
Except(x, d, d1) ==
    IF x.exc = "" THEN Ok(d1)
    ELSE IF x.exc \in DecodeCaught THEN Ok(d)
    ELSE Raise(x.exc)

LanguageName(lang_id) ==
    IF lang_id \in DOMAIN LANGUAGES THEN <<LANGUAGES[lang_id]>>
    ELSE <<"Unknown", lang_id>>

FourNulls == <<0, 0, 0, 0>>

\* the body of the inner loop for one match of a key other than battery
FoldOther(d, m) ==
    CASE m.kind = "dongle_firmware" ->
            LET r == hex_to_ascii(m.value, 0) IN
            IF r.exc # "" THEN Raise(r.exc)
            ELSE Ok([d EXCEPT !.dongle_firmware = r.val])
      [] m.kind = "dongle_mac" ->
            LET r == hex_to_mac(m.value) IN
            IF r.exc # "" THEN Raise(r.exc)
            ELSE Ok([d EXCEPT !.dongle_mac = r.val])
      [] m.kind = "headset_type" ->
            LET r == hex_to_ascii(m.value, 0) IN
            IF r.exc # "" THEN Raise(r.exc)
            ELSE IF IsSet(r.val) /\ Val(r.val) # <<>> /\ Val(r.val) # FourNulls
                 THEN Ok([d EXCEPT !.headset_type = r.val])
                 ELSE Ok(d)
      [] m.kind = "headset_firmware" ->
            LET r == hex_to_ascii(m.value, 1) IN
            IF r.exc # "" THEN Raise(r.exc)
            ELSE Ok([d EXCEPT !.headset_firmware = r.val])
      [] m.kind = "multipoint" -> FoldMultipoint(d, m)
      [] m.kind = "eq_mode" ->
            LET x == TryByte(m.value, 1) IN
            Except(x, d, [d EXCEPT !.eq_mode_id = Some(x.val)])
      [] m.kind = "language" ->
            LET x == TryByte(m.value, 0) IN
            Except(x, d, [d EXCEPT !.voice_language = Some(LanguageName(x.val))])
      [] m.kind = "connection" ->
            LET x == TryByte(m.value, 0) IN
            Except(x, d, [d EXCEPT !.connected = Some(x.val = 1)])

FoldMatch(d, m) ==
    IF m.kind = "battery" THEN FoldBattery(d, m) ELSE FoldOther(d, m)

\* a mutation of ResolveEqMode: no name without a headset type
ResolveEqModeWithType(d) ==
    IF IsSet(d.eq_mode_id) /\ IsSet(d.headset_type)
    THEN [d EXCEPT !.eq_mode = Some(get_eq_mode_name(Val(d.eq_mode_id), d.headset_type))]
    ELSE d

\* the two lines after the file loop
ResolveEqMode(d) ==
    IF IsSet(d.eq_mode_id)
    THEN [d EXCEPT !.eq_mode = Some(get_eq_mode_name(Val(d.eq_mode_id), d.headset_type))]
    ELSE d

-----------------------------------------------------------------------------
(* The log directory *)

MaxRecs == 2
MaxWatchRecs == 2
MaxPolls == 2

Bat(ts, v) == [kind |-> "battery", ts |-> ts, value |-> v]
Rec(kind, v) == [kind |-> kind, ts |-> <<>>, value |-> v]

\* two valid timestamps, T1 < T2, and one strptime rejects (month 13)
T1 == <<2025, 12, 31, 23, 59, 59, 999>>
T2 == <<2026, 1, 1, 0, 0, 0, 0>>
TBad == <<2026, 13, 1, 0, 0, 0, 0>>

BatteryLines ==
    {Bat(T1, <<"0", "0", "0", "5", "F", "F", "0", "0">>), Bat(T2, <<"0", "0", "0", "8">>), Bat(T2, <<"0", "5">>), Bat(TBad, <<"0", "0", "0", "2">>)}

OtherLines ==
    {Rec("dongle_firmware", <<"3", "1", "0", "0", "2", "E">>),
     Rec("dongle_firmware", <<"3">>),
     Rec("dongle_mac", <<"A", "A", "B", "B", "C", "C", "D", "D", "E", "E", "F", "F", "0", "0", "1", "1">>),
     Rec("dongle_mac", <<"a", "a", "b", "b", "c", "c", "d", "d", "e", "e">>),
     Rec("dongle_mac", <<"A">>),
     Rec("headset_type", <<"5", "3", "3", "8", "3", "1", "3", "0">>),
     Rec("headset_type", <<"5", "3", "3", "6", "3", "6", "3", "1">>),
     Rec("headset_type", <<"5", "8", "3", "9">>),
     Rec("headset_type", <<"0", "0", "0", "0", "0", "0", "0", "0">>),
     Rec("headset_firmware", <<"0", "1", "3", "2">>),
     Rec("headset_firmware", <<"0">>),
     Rec("multipoint", <<"0", "0", "0", "1", "0", "2">>),
     Rec("multipoint", <<"0", "0", "0", "1">>),
     Rec("multipoint", <<"0", "0", "0", "2", "0", "0">>),
     Rec("eq_mode", <<"0", "0", "0", "1">>),
     Rec("eq_mode", <<"0", "0", "0", "2">>),
     Rec("eq_mode", <<"0", "0", "0", "9">>),
     Rec("eq_mode", <<"0", "0">>),
     Rec("language", <<"0", "1">>),
     Rec("language", <<"0">>),
     Rec("connection", <<"0", "1">>),
     Rec("connection", <<"1">>)}

Lines == BatteryLines \cup OtherLines

\* the lines the polling runs draw from
WatchLines ==
    {Bat(T1, <<"0", "0", "0", "5", "F", "F", "0", "0">>), Bat(T2, <<"0", "0", "0", "8">>), Bat(T2, <<"0", "5">>),
     Rec("headset_type", <<"5", "3", "3", "6", "3", "6", "3", "1">>), Rec("eq_mode", <<"0", "0", "0", "1">>),
     Rec("eq_mode", <<"0", "0", "0", "2">>), Rec("dongle_mac", <<"a", "a", "b", "b", "c", "c", "d", "d", "e", "e">>)}

FileNames == <<"a.log", "b.log">>

File(lines) == [readable |-> TRUE, lines |-> lines]
Unreadable == [readable |-> FALSE, lines |-> <<>>]

BoundedSeq(S, n) == UNION {[1..m -> S] : m \in 0..n}

\* every way to lay the lines s out as the two files: split between them, or
\* all in one while open() fails on the other (a file that cannot be opened
\* holds nothing the scan can see)
TreesOf(s) ==
    {(FileNames[1] :> File(SubSeq(s, 1, k))
      @@ FileNames[2] :> File(SubSeq(s, k + 1, Len(s)))) : k \in 0..Len(s)}
    \cup {(FileNames[1] :> File(s) @@ FileNames[2] :> Unreadable),
          (FileNames[1] :> Unreadable @@ FileNames[2] :> File(s))}

\* list(log_dir.rglob("*")): pathlib promises no order
Listings ==
    {l \in [1..Len(FileNames) -> {FileNames[i] : i \in 1..Len(FileNames)}] :
        \A i, j \in 1..Len(FileNames) : i # j => l[i] # l[j]}

\* the matches the file loop reaches, in order; a file open() raises IOError
\* on is left by the handler of the loop body
ScanOf(t, listing) ==
    Flatten([i \in 1..Len(listing) |->
                IF t[listing[i]].readable
                THEN FileMatches(t[listing[i]].lines) ELSE <<>>])

-----------------------------------------------------------------------------
(* format_output and get_and_print *)

\* the test format_output and get_and_print make on data['battery']['value']
HasBattery(d) == IsSet(d.battery.value) /\ Val(d.battery.value) # <<>>

\* format_output(data, as_json=True): the object it dumps, without its
\* 'audio' entry and the time estimate (both come from outside the scan)
format_output(d) ==
    IF ~HasBattery(d)
    THEN [success |-> FALSE, error |-> Some("No data found"), body |-> None]
    ELSE LET battery == decode_battery(Val(d.battery.value)).val IN
         [success |-> TRUE,
          error |-> None,
          body |-> Some([timestamp |-> d.battery.timestamp,
                         battery |-> battery,
                         raw_value |-> d.battery.value,
                         type |-> d.headset_type,
                         firmware |-> d.headset_firmware,
                         eq_mode |-> d.eq_mode,
                         voice_language |-> d.voice_language,
                         multipoint_enabled |-> d.multipoint_enabled,
                         multipoint_connections |-> d.multipoint_connections,
                         dongle_firmware |-> d.dongle_firmware,
                         mac_address |-> d.dongle_mac,
                         connected |-> d.connected])]

\* a mutation of get_and_print_status: 0 whatever was found
get_and_print_status_zero(d) == IF HasBattery(d) THEN 0 ELSE 0

\* the value get_and_print returns
get_and_print_status(d) == IF HasBattery(d) THEN 0 ELSE 1

\* a mutation of KeyboardInterruptHandler: a failure status
KeyboardInterruptHandlerFailing(o) == [out |-> o, status |-> 1]

\* main's KeyboardInterrupt handler: it prints "Exiting...", which is no
\* report of get_and_print, and returns 0
KeyboardInterruptHandler(o) == [out |-> o, status |-> 0]

-----------------------------------------------------------------------------
(* The steps of main *)

Harness == <<hexIn, decoded>>

\* get_and_print calls parse_logs: the directory is listed and `data` is
\* built afresh
ListFiles ==
    /\ pc = "start"
    /\ \E l \in Listings : log_files' = l
    /\ data' = EmptyData
    /\ pos' = 0
    /\ pc' = "scan"
    /\ UNCHANGED <<tree, watch, out, exitCode, Harness>>

\* one pass of a finditer loop body
ScanMatch ==
    /\ pc = "scan"
    /\ LET scan == ScanOf(tree, log_files) IN
       /\ pos < Len(scan)
       /\ LET r == FoldMatch(data, scan[pos + 1]) IN
          IF r.exc = ""
          THEN /\ data' = r.val
               /\ pos' = pos + 1
               /\ pc' = "scan"
          ELSE \* nothing up to main catches it
               /\ pc' = "aborted"
               /\ UNCHANGED <<data, pos>>
    /\ UNCHANGED <<tree, watch, log_files, out, exitCode, Harness>>

\* the file loop is over: parse_logs resolves the EQ mode name and returns
ResolveEq ==
    /\ pc = "scan"
    /\ pos = Len(ScanOf(tree, log_files))
    /\ data' = ResolveEqMode(data)
    /\ pc' = "print"
    /\ UNCHANGED <<tree, watch, log_files, pos, out, exitCode, Harness>>

\* the body of get_and_print after parse_logs: it prints format_output(data); without --watch main
\* returns that status, with --watch it goes to sleep
get_and_print ==
    /\ pc = "print"
    /\ out' = Append(out, [log_files |-> log_files, data |-> data,
                           printed |-> format_output(data)])
    /\ IF watch
       THEN pc' = "sleep" /\ UNCHANGED exitCode
       ELSE pc' = "exited" /\ exitCode' = Some(get_and_print_status(data))
    /\ UNCHANGED <<tree, watch, log_files, pos, data, Harness>>

\* time.sleep returns and the loop goes round
Wake ==
    /\ pc = "sleep"
    /\ Len(out) < MaxPolls
    /\ pc' = "start"
    /\ UNCHANGED <<tree, watch, log_files, pos, data, out, exitCode, Harness>>

\* Ctrl+C: KeyboardInterrupt is raised in the main thread wherever it is
\* inside the try of the watch loop; nothing below main's handler catches it
Interrupt ==
    /\ watch
    /\ pc \in {"start", "scan", "print", "sleep"}
    /\ pc' = "exited"
    /\ out' = KeyboardInterruptHandler(out).out
    /\ exitCode' = Some(KeyboardInterruptHandler(out).status)
    /\ UNCHANGED <<tree, watch, log_files, pos, data, Harness>>

InitMain(w, pool, n) ==
    /\ \E s \in BoundedSeq(pool, n) : tree \in TreesOf(s)
    /\ watch = w
    /\ pc = "start"
    /\ log_files = <<>>
    /\ pos = 0
    /\ data = EmptyData
    /\ out = <<>>
    /\ exitCode = None
    /\ hexIn = <<>>
    /\ decoded = None

\* one run without --watch
Init == InitMain(FALSE, Lines, MaxRecs)
Next == ListFiles \/ ScanMatch \/ ResolveEq \/ get_and_print
Spec == Init /\ [][Next]_vars

\* a run with --watch
InitWatch == InitMain(TRUE, WatchLines, MaxWatchRecs)
NextWatch == ListFiles \/ ScanMatch \/ ResolveEq \/ get_and_print \/ Wake \/ Interrupt
SpecWatch == InitWatch /\ [][NextWatch]_vars

-----------------------------------------------------------------------------
(* The decoders on their own: decode_battery and hex_to_mac applied to one *)
(* payload, as the raw and test uses of the decoders do                    *)

HexUpper(bytes) == Flatten([i \in 1..Len(bytes) |-> Hex02X(bytes[i])])
HexLower(bytes) ==
    Flatten([i \in 1..Len(bytes) |->
                <<LowerHexDigits[(bytes[i] \div 16) + 1],
                  LowerHexDigits[(bytes[i] % 16) + 1]>>])

MacSample == <<170, 187, 204, 221, 238, 255, 0, 17>>

\* the byte strings the payloads are made of: every level byte after a zero
\* byte, the documented response 00 05 FF 00, and every prefix of MacSample
\* (the patterns capture one hex digit at least, so no payload is empty)
CodecBytes ==
    {<<0, b>> : b \in 0..255}
    \cup {<<0, 5, 255, 0>>}
    \cup {SubSeq(MacSample, 1, n) : n \in 1..Len(MacSample)}

\* payloads bytes.fromhex rejects: an odd number of digits, a non-hex character
BadHex ==
    {SubSeq(HexUpper(bs), 1, 2 * Len(bs) - 1) : bs \in CodecBytes}
    \cup {<<"G", "0">>, <<"0", "5", "x", "y">>}

CodecInputs ==
    {HexUpper(bs) : bs \in CodecBytes} \cup {HexLower(bs) : bs \in CodecBytes}
    \cup BadHex

Decode ==
    /\ pc = "codec"
    /\ ~IsSet(decoded)
    /\ decoded' = Some([battery |-> decode_battery(hexIn).val,
                        mac |-> hex_to_mac(hexIn).val])
    /\ UNCHANGED <<tree, watch, pc, log_files, pos, data, out, exitCode, hexIn>>

InitCodec ==
    /\ hexIn \in CodecInputs
    /\ decoded = None
    /\ pc = "codec"
    /\ tree \in TreesOf(<<>>)
    /\ tree[FileNames[1]].readable /\ tree[FileNames[2]].readable
    /\ watch = FALSE
    /\ log_files = <<>>
    /\ pos = 0
    /\ data = EmptyData
    /\ out = <<>>
    /\ exitCode = None

NextCodec == Decode
SpecCodec == InitCodec /\ [][NextCodec]_vars

-----------------------------------------------------------------------------
(* Properties *)

\* the matches folded so far by the running parse_logs
Folded == SubSeq(ScanOf(tree, log_files), 1, pos)


\* parse_logs has returned `data`
Returned == pc \in {"print", "sleep"} \/ (pc = "exited" /\ ~watch)

\* the lines of the readable files, file after file in listing order and top
\* to bottom inside a file
LinesInOrder ==
    Flatten([i \in 1..Len(log_files) |->
                IF tree[log_files[i]].readable THEN tree[log_files[i]].lines
                ELSE <<>>])

\* timestamp text a is later than timestamp text b, field by field
Later(a, b) ==
    \E i \in 1..Len(a) : a[i] > b[i] /\ \A j \in 1..(i - 1) : a[j] = b[j]

\* the battery matches among f whose timestamp strptime accepts
DatedBattery(f) ==
    {i \in 1..Len(f) : f[i].kind = "battery" /\ strptime(f[i].ts).exc = ""}

\* C1: when parse_logs returns, the snapshot's battery payload and timestamp
\* are those of the battery record with the greatest timestamp among all the
\* lines, the first one in scan order among several with that timestamp; with
\* no dated battery record, both are unset.
C1_LatestBatteryWins ==
    Returned =>
        LET f == LinesInOrder
            dated == DatedBattery(f)
        IN  IF dated = {}
            THEN data.battery = [value |-> None, timestamp |-> None]
            ELSE LET best == CHOOSE i \in dated :
                                \A j \in dated :
                                    /\ ~Later(f[j].ts, f[i].ts)
                                    /\ f[j].ts = f[i].ts => i <= j
                 IN  /\ data.battery.value = Some(f[best].value)
                     /\ data.battery.timestamp = Some(strptime(f[best].ts).val)

\* C1 witness: the record with the later timestamp was scanned first, the
\* earlier one with another payload second, and the later one's payload is kept
C1_Witness ==
    /\ Returned /\ Len(LinesInOrder) = 2
    /\ LinesInOrder[1].kind = "battery" /\ LinesInOrder[2].kind = "battery"
    /\ LinesInOrder[1].ts = T2 /\ LinesInOrder[2].ts = T1
    /\ LinesInOrder[1].value # LinesInOrder[2].value
    /\ data.battery.value = Some(LinesInOrder[1].value)

\* the snapshot fields each key other than battery decodes into
KindFields ==
    [dongle_firmware |-> {"dongle_firmware"},
     dongle_mac |-> {"dongle_mac"},
     headset_type |-> {"headset_type"},
     headset_firmware |-> {"headset_firmware"},
     multipoint |-> {"multipoint_enabled", "multipoint_connections"},
     eq_mode |-> {"eq_mode_id"},
     language |-> {"voice_language"},
     connection |-> {"connected"}]

\* what one record gives when it is the only record folded
Alone(m) == FoldOther(EmptyData, m).val

\* the positions of f that hold a record of kind k
OfKind(f, k) == {i \in 1..Len(f) : f[i].kind = k}

Last(idx) == CHOOSE i \in idx : \A j \in idx : j <= i

\* C2 as stated: each non-battery field holds what the last record of its
\* kind in scan order decodes to, whatever that record is.
C2_LastRecordOverwrites ==
    Returned =>
        LET f == LinesInOrder IN
        \A k \in DOMAIN KindFields :
            OfKind(f, k) # {} =>
                \A fld \in KindFields[k] :
                    data[fld] = Alone(f[Last(OfKind(f, k))])[fld]

\* the fields assigned from every record of their kind, an undecodable payload
\* assigning None
AlwaysAssigned == {"dongle_firmware", "dongle_mac", "headset_firmware"}

\* record m assigns field fld
Assigns(m, fld) == fld \in AlwaysAssigned \/ IsSet(Alone(m)[fld])

\* C2 amended: when parse_logs returns, each non-battery field holds what the
\* last record of its kind (files in listing order, top to bottom inside a
\* file) that assigns the field decodes to, and is unset when no record assigns
\* it.  Every record assigns dongle_firmware, dongle_mac and headset_firmware
\* (unset, when the hex is invalid); the other fields are assigned only by a
\* record whose payload decodes to a value for them.
C2_LastAssigningRecordWins ==
    Returned =>
        LET f == LinesInOrder IN
        \A k \in DOMAIN KindFields :
            \A fld \in KindFields[k] :
                LET idx == {i \in OfKind(f, k) : Assigns(f[i], fld)} IN
                IF idx = {} THEN data[fld] = None
                ELSE data[fld] = Alone(f[Last(idx)])[fld]

\* C2 witness: two eq_mode records with different ids were folded and the id
\* of the second is the one kept
C2_Witness ==
    /\ Returned /\ pos = 2
    /\ Folded[1].kind = "eq_mode" /\ Folded[2].kind = "eq_mode"
    /\ IsSet(Alone(Folded[1]).eq_mode_id) /\ IsSet(Alone(Folded[2]).eq_mode_id)
    /\ Alone(Folded[1]).eq_mode_id # Alone(Folded[2]).eq_mode_id
    /\ data.eq_mode_id = Alone(Folded[2]).eq_mode_id

\* the number of payload bytes the decode of each kind indexes
BytesNeeded ==
    [dongle_firmware |-> 0, dongle_mac |-> 6, headset_type |-> 0,
     headset_firmware |-> 0, multipoint |-> 3, eq_mode |-> 2, language |-> 1,
     connection |-> 1]

\* a payload that is not valid hex or is too short for its kind
Malformed(m) ==
    /\ m.kind \in DOMAIN BytesNeeded
    /\ LET b == fromhex(m.value) IN
       b.exc # "" \/ Len(b.val) < BytesNeeded[m.kind]

\* C3 as stated: folding a record with a malformed or too short payload leaves
\* every field of the snapshot as it was.
C3_MalformedRecordChangesNothing ==
    [][(pc = "scan" /\ pos' = pos + 1 /\ Malformed(ScanOf(tree, log_files)[pos + 1]))
           => data' = data]_vars

S810 == <<83, 56, 49, 48>>
S661 == <<83, 54, 54, 49>>

\* the table the claim names for a headset type: the catalog entry, or the
\* 4-mode default when the type is unset or not in the catalog
TableFor(headset_type) ==
    IF IsSet(headset_type) /\ Val(headset_type) \in DOMAIN EQ_MODES_BY_MODEL
    THEN EQ_MODES_BY_MODEL[Val(headset_type)]
    ELSE (0 :> "Standard" @@ 1 :> "Vocal" @@ 2 :> "Bass Boost" @@ 3 :> "Treble Boost")

\* C4: the EQ mode name is resolved once, after the whole scan: it is unset
\* while records are being folded, and in the returned snapshot it is the name
\* the final headset_type's table gives the final eq_mode_id (the default
\* table when the type is unset or not in the catalog), "Unknown (<id>)" when
\* the id is not in that table; id 2 with S810 is "Bass Boost", id 1 with no
\* or an unknown type is "Vocal".
C4_EqNameResolvedAtEnd ==
    /\ pc = "scan" => ~IsSet(data.eq_mode)
    /\ (Returned /\ IsSet(data.eq_mode_id)) =>
          LET id == Val(data.eq_mode_id)
              table == TableFor(data.headset_type)
          IN  /\ id \in DOMAIN table => data.eq_mode = Some(<<table[id]>>)
              /\ id \notin DOMAIN table => data.eq_mode = Some(<<"Unknown", id>>)
              /\ (id = 2 /\ data.headset_type = Some(S810))
                     => data.eq_mode = Some(<<"Bass Boost">>)
              /\ (id = 1 /\ (~IsSet(data.headset_type)
                             \/ Val(data.headset_type) \notin DOMAIN EQ_MODES_BY_MODEL))
                     => data.eq_mode = Some(<<"Vocal">>)

\* C4 witness: the eq_mode record was scanned before the headset_type record
\* (they sit in different files) and the name comes from that type's table
C4_Witness ==
    /\ Returned /\ pos = 2
    /\ Folded[1].kind = "eq_mode" /\ Folded[2].kind = "headset_type"
    /\ data.headset_type = Some(S661)
    /\ data.eq_mode = Some(<<"Vocal Booster">>)

\* C5 as stated: the EQ mode name is set only if both eq_mode_id and
\* headset_type are set.
C5_NameNeedsIdAndType ==
    Returned => (IsSet(data.eq_mode) => IsSet(data.eq_mode_id) /\ IsSet(data.headset_type))

\* C5 amended: in the returned snapshot the EQ mode name is set exactly when
\* eq_mode_id is set; with headset_type unset it is still set, from the default
\* table.
C5_NameSetIffIdSet ==
    Returned =>
        /\ (IsSet(data.eq_mode) <=> IsSet(data.eq_mode_id))
        /\ (IsSet(data.eq_mode_id) /\ ~IsSet(data.headset_type)) =>
              LET id == Val(data.eq_mode_id) IN
              data.eq_mode = IF id \in DOMAIN EQ_MODES_DEFAULT
                             THEN Some(<<EQ_MODES_DEFAULT[id]>>)
                             ELSE Some(<<"Unknown", id>>)

\* C5 witness: a snapshot with an EQ mode id, no headset type, and a name
C5_Witness ==
    /\ Returned
    /\ IsSet(data.eq_mode_id) /\ ~IsSet(data.headset_type)
    /\ data.eq_mode = Some(<<"Vocal">>)

\* no record of the lines is a battery record whose timestamp parses
NoBatteryObserved == DatedBattery(LinesInOrder) = {}

BytesOfInput == {bs \in CodecBytes : hexIn \in {HexUpper(bs), HexLower(bs)}}

\* C8 as stated: hex_to_mac gives a MAC only for a payload of 6 bytes or more,
\* the first 6 bytes as uppercase pairs joined by ':', and no value for a
\* shorter payload.
C8_MacNeedsSixBytes ==
    IsSet(decoded) =>
        \A bs \in BytesOfInput :
            IF Len(bs) >= 6
            THEN Val(decoded).mac =
                    Some(Hex02X(bs[1]) \o <<":">> \o Hex02X(bs[2]) \o <<":">>
                         \o Hex02X(bs[3]) \o <<":">> \o Hex02X(bs[4]) \o <<":">>
                         \o Hex02X(bs[5]) \o <<":">> \o Hex02X(bs[6]))
            ELSE Val(decoded).mac = None

\* C9: for a payload of 2 or more bytes decode_battery gives level_indicator =
\* byte[1] and percentage = min((byte[1] + 1) * 10, 100), a multiple of 10 in
\* 10..100; for a shorter payload or invalid hex it gives no value.
C9_BatteryPercentage ==
    IsSet(decoded) =>
        /\ \A bs \in BytesOfInput :
              IF Len(bs) >= 2
              THEN /\ IsSet(Val(decoded).battery)
                   /\ LET b == Val(Val(decoded).battery) IN
                      /\ b.level_indicator = bs[2]
                      /\ b.percentage = (IF bs[2] >= 9 THEN 100 ELSE (bs[2] + 1) * 10)
                      /\ b.percentage % 10 = 0
                      /\ b.percentage >= 10 /\ b.percentage <= 100
              ELSE Val(decoded).battery = None
        /\ hexIn \in BadHex => Val(decoded).battery = None

\* C9 witness: the level byte 255 decoded to 100 percent
C9_Witness ==
    /\ IsSet(decoded) /\ IsSet(Val(decoded).battery)
    /\ hexIn = <<"0", "0", "F", "F">>
    /\ Val(Val(decoded).battery).level_indicator = 255
    /\ Val(Val(decoded).battery).percentage = 100

\* C6 as stated: every invocation over the unchanged directory returns the
\* same snapshot, whatever order the listing enumerates the files in.
C6_SnapshotIgnoresListingOrder ==
    \A i, j \in 1..Len(out) : out[i].data = out[j].data

\* C6 amended: two invocations over the unchanged directory whose listings
\* enumerate the files in the same order return identical snapshots and print
\* the same; the battery timestamp is the same under any listing order; and
\* each invocation starts from the empty snapshot.
C6_SameListingSameSnapshot ==
    /\ \A i, j \in 1..Len(out) :
          /\ out[i].log_files = out[j].log_files =>
                /\ out[i].data = out[j].data
                /\ out[i].printed = out[j].printed
          /\ out[i].data.battery.timestamp = out[j].data.battery.timestamp
    /\ (pc = "scan" /\ pos = 0) => data = EmptyData

\* C6 witness: two invocations listed the files in the same order and returned
\* the same snapshot, with a battery value and an EQ mode name in it
C6_Witness ==
    /\ Len(out) = 2
    /\ out[1].log_files = out[2].log_files
    /\ out[1].data = out[2].data
    /\ out[2].printed.success
    /\ IsSet(out[2].data.eq_mode)

\* C10 as stated: in watch mode the loop ends on an interrupt only between
\* iterations (asleep, or at the top of the loop), never inside a scan.
C10_ExitOnlyBetweenIterations ==
    [][(watch /\ pc # "exited" /\ pc' = "exited") => pc \in {"sleep", "start"}]_vars

\* C10 amended: in watch mode an interrupt ends the loop wherever it arrives,
\* also inside a scan: main returns 0, and the interrupted call prints no
\* report (the scan in progress is abandoned, not completed).
C10_InterruptEndsLoopCleanly ==
    [][(watch /\ pc # "exited" /\ pc' = "exited") =>
           /\ exitCode' = Some(0)
           /\ out' = out
           /\ data' = data /\ pos' = pos]_vars

\* C10 witness: the loop was interrupted after the first of two matches of
\* its first scan: it has exited with status 0 and printed no report
C10_Witness ==
    /\ watch /\ pc = "exited"
    /\ pos = 1 /\ Len(ScanOf(tree, log_files)) = 2
    /\ out = <<>>
    /\ exitCode = Some(0)


\* the bytes of a multipoint payload that is valid hex
MultipointBytes(m) == fromhex(m.value).val

\* C11 as stated: folding a multipoint record whose payload has 3 bytes or
\* more sets multipoint_enabled to true exactly when byte[1] is nonzero, and
\* multipoint_connections to byte[2].
C11_MultipointEnabledWhenNonzero ==
    [][(/\ pc = "scan" /\ pos' = pos + 1
        /\ ScanOf(tree, log_files)[pos + 1].kind = "multipoint"
        /\ ~Malformed(ScanOf(tree, log_files)[pos + 1]))
           => LET b == MultipointBytes(ScanOf(tree, log_files)[pos + 1]) IN
              /\ data'.multipoint_enabled = Some(ByteAt(b, 1).val # 0)
              /\ data'.multipoint_connections = Some(ByteAt(b, 2).val)]_vars

\* C12 as stated: when parse_logs returns, multipoint_enabled and
\* multipoint_connections are both unset, or both are what one and the same
\* multipoint record with a full payload decodes to.
C12_MultipointFieldsFromOneRecord ==
    Returned =>
        LET f == LinesInOrder IN
        \/ data.multipoint_enabled = None /\ data.multipoint_connections = None
        \/ \E i \in OfKind(f, "multipoint") :
              /\ ~Malformed(f[i])
              /\ data.multipoint_enabled = Alone(f[i]).multipoint_enabled
              /\ data.multipoint_connections = Alone(f[i]).multipoint_connections

\* the enabled flag of one record next to the connection count of another
C12_MixedRecords ==
    /\ Returned
    /\ IsSet(data.multipoint_enabled) /\ IsSet(data.multipoint_connections)
    /\ ~C12_MultipointFieldsFromOneRecord

=============================================================================
